---------------------------- MODULE Spec2Model ----------------------------
(***************************************************************************)
(* A model of the Ceph Terraform provider                                  *)
(* (src/ceph_terraform_claude_ai4/ceph_terraform_provider.go).             *)
(*                                                                         *)
(* Strings are TLA+ strings and are taken apart character by character     *)
(* (SubSeq, Len, \o), so strings.Split, strings.Contains,                  *)
(* strings.TrimSpace, strconv.ParseInt and fmt.Sprintf are computed as Go  *)
(* computes them.  One handler call of the provider is one action.  The    *)
(* host runtime (Terraform) keeps the state of the managed resource        *)
(* between calls; the control plane (the ceph and rbd tools) is the        *)
(* environment: every command either fails with one of a few messages or   *)
(* prints one of a few texts.                                              *)
(***************************************************************************)
EXTENDS Integers, Sequences, FiniteSets, TLC

VARIABLES
    client,     \* the CephClient built by Configure
    tfstate,    \* the host runtime's persisted resource: <<>> or <<record>>
    created,    \* whether tfstate is what a Create returned, not yet read or updated
    op,         \* the handler that has run and not yet returned to the host ("idle": none)
    req,        \* its request: [plan |-> <<>> or <<r>>, state |-> <<>> or <<r>>]
    calls,      \* the ExecuteCommand calls it made, in order
    resp        \* its response: [state, removed, diags]

vars == <<client, tfstate, created, op, req, calls, resp>>

---------------------------------------------------------------------------
(* Bounds of the model.                                                    *)

\* replication sizes a plan may ask for, and a property listing may show: 1..MaxRepl
MaxRepl == 2

---------------------------------------------------------------------------
(* The Go string functions the provider uses.                              *)

\* The i-th character of s as a string; "" outside s
Char(s, i) == IF 1 <= i /\ i <= Len(s) THEN SubSeq(s, i, i) ELSE ""

RECURSIVE IndexFrom(_, _, _)
IndexFrom(s, sub, i) ==
    IF i + Len(sub) - 1 > Len(s) THEN 0
    ELSE IF SubSeq(s, i, i + Len(sub) - 1) = sub THEN i
    ELSE IndexFrom(s, sub, i + 1)

\* strings.Index: the first position of sub in s (1-based), 0 when there is none
Index(s, sub) == IndexFrom(s, sub, 1)

Contains(s, sub) == Index(s, sub) # 0

RECURSIVE Split(_, _)
\* strings.Split with a non-empty separator: n separators give n+1 pieces
Split(s, sep) ==
    LET i == Index(s, sep)
    IN  IF i = 0 THEN <<s>>
        ELSE <<SubSeq(s, 1, i - 1)>> \o Split(SubSeq(s, i + Len(sep), Len(s)), sep)

RECURSIVE Join(_, _)
Join(parts, sep) ==
    IF Len(parts) = 0 THEN ""
    ELSE IF Len(parts) = 1 THEN parts[1]
    ELSE parts[1] \o sep \o Join(Tail(parts), sep)

IsSpace(c) == c \in {" ", "\t", "\n", "\r", "\f"}

RECURSIVE TrimLeft(_)
TrimLeft(s) ==
    IF Len(s) > 0 /\ IsSpace(Char(s, 1)) THEN TrimLeft(SubSeq(s, 2, Len(s))) ELSE s

RECURSIVE TrimRight(_)
TrimRight(s) ==
    IF Len(s) > 0 /\ IsSpace(Char(s, Len(s))) THEN TrimRight(SubSeq(s, 1, Len(s) - 1)) ELSE s

TrimSpace(s) == TrimRight(TrimLeft(s))

DigitChars == "0123456789"

DigitStr(d) == Char(DigitChars, d + 1)

IsDigit(c) == \E d \in 0..9 : DigitStr(d) = c

DigitVal(c) == CHOOSE d \in 0..9 : DigitStr(d) = c

RECURSIVE FormatNat(_)
FormatNat(n) ==
    IF n < 10 THEN DigitStr(n) ELSE FormatNat(n \div 10) \o DigitStr(n % 10)

\* fmt.Sprintf("%d", n)
FormatInt(n) == IF n < 0 THEN "-" \o FormatNat(0 - n) ELSE FormatNat(n)

RECURSIVE ParseNat(_)
ParseNat(s) ==
    IF Len(s) = 0 THEN 0
    ELSE ParseNat(SubSeq(s, 1, Len(s) - 1)) * 10 + DigitVal(Char(s, Len(s)))

\* strconv.ParseInt(s, 10, 64): an optional sign and at least one digit; a
\* syntax error gives the value 0.  (The texts of the model are short: no
\* value leaves the int64 range.)
ParseInt(s) ==
    LET signed == Len(s) > 0 /\ Char(s, 1) \in {"+", "-"}
        body   == IF signed THEN SubSeq(s, 2, Len(s)) ELSE s
        ok     == Len(body) > 0 /\ \A i \in 1..Len(body) : IsDigit(Char(body, i))
    IN  [ok  |-> ok,
         val |-> IF ~ok THEN 0
                 ELSE IF Char(s, 1) = "-" THEN 0 - ParseNat(body) ELSE ParseNat(body)]

---------------------------------------------------------------------------
(* encoding/json: json.Unmarshal into a map[string]interface{}.            *)
(* The decoder reads objects, arrays, strings without escapes, integers    *)
(* and the three literals; the outputs of the model use nothing else.      *)
(* A value is [t |-> "obj", keys, vals], [t |-> "arr", elems],             *)
(* [t |-> "str", s], [t |-> "num", n], [t |-> "bool", b] or [t |-> "null"].*)

RECURSIVE SkipWs(_, _)
SkipWs(s, i) ==
    IF Char(s, i) \in {" ", "\t", "\n", "\r"} THEN SkipWs(s, i + 1) ELSE i

RECURSIVE ScanDigits(_, _)
ScanDigits(s, i) == IF IsDigit(Char(s, i)) THEN ScanDigits(s, i + 1) ELSE i

JNull == [t |-> "null"]

JObject(keys, vals) == [t |-> "obj", keys |-> keys, vals |-> vals]

JFail(i) == [ok |-> FALSE, v |-> JNull, next |-> i]

JOk(v, next) == [ok |-> TRUE, v |-> v, next |-> next]

JsonLiteral(s, i, word, v) ==
    IF i + Len(word) - 1 <= Len(s) /\ SubSeq(s, i, i + Len(word) - 1) = word
    THEN JOk(v, i + Len(word))
    ELSE JFail(i)

\* s has a quote at i
JsonString(s, i) ==
    LET j == IndexFrom(s, "\"", i + 1)
    IN  IF j = 0 \/ Contains(SubSeq(s, i + 1, j - 1), "\\") THEN JFail(i)
        ELSE JOk([t |-> "str", s |-> SubSeq(s, i + 1, j - 1)], j + 1)

JsonNumber(s, i) ==
    LET neg == Char(s, i) = "-"
        d0  == IF neg THEN i + 1 ELSE i
        d1  == IF Char(s, d0) = "0" THEN d0 + 1 ELSE ScanDigits(s, d0)
    IN  IF d1 = d0 \/ Char(s, d1) \in {".", "e", "E"} THEN JFail(i)
        ELSE JOk([t |-> "num",
                  n |-> IF neg THEN 0 - ParseNat(SubSeq(s, d0, d1 - 1))
                        ELSE ParseNat(SubSeq(s, d0, d1 - 1))], d1)

RECURSIVE JsonValue(_, _)
RECURSIVE JsonMembers(_, _, _, _)
RECURSIVE JsonElements(_, _, _)

JsonValue(s, i) ==
    LET c == Char(s, i)
    IN  CASE c = "{" ->
                LET j == SkipWs(s, i + 1)
                IN  IF Char(s, j) = "}" THEN JOk(JObject(<<>>, <<>>), j + 1)
                    ELSE JsonMembers(s, j, <<>>, <<>>)
          [] c = "[" ->
                LET j == SkipWs(s, i + 1)
                IN  IF Char(s, j) = "]" THEN JOk([t |-> "arr", elems |-> <<>>], j + 1)
                    ELSE JsonElements(s, j, <<>>)
          [] c = "\"" -> JsonString(s, i)
          [] c = "-" \/ IsDigit(c) -> JsonNumber(s, i)
          [] c = "t" -> JsonLiteral(s, i, "true", [t |-> "bool", b |-> TRUE])
          [] c = "f" -> JsonLiteral(s, i, "false", [t |-> "bool", b |-> FALSE])
          [] c = "n" -> JsonLiteral(s, i, "null", JNull)
          [] OTHER -> JFail(i)

\* the members of an object from the key at i on
JsonMembers(s, i, keys, vals) ==
    LET k == IF Char(s, i) = "\"" THEN JsonString(s, i) ELSE JFail(i)
        c == SkipWs(s, k.next)
        v == JsonValue(s, SkipWs(s, c + 1))
        e == SkipWs(s, v.next)
    IN  IF ~k.ok \/ Char(s, c) # ":" THEN JFail(i)
        ELSE IF ~v.ok THEN JFail(i)
        ELSE IF Char(s, e) = "}"
             THEN JOk(JObject(Append(keys, k.v.s), Append(vals, v.v)), e + 1)
        ELSE IF Char(s, e) = ","
             THEN JsonMembers(s, SkipWs(s, e + 1), Append(keys, k.v.s), Append(vals, v.v))
        ELSE JFail(i)

\* the elements of an array from the value at i on
JsonElements(s, i, elems) ==
    LET v == JsonValue(s, i)
        e == SkipWs(s, v.next)
    IN  IF ~v.ok THEN JFail(i)
        ELSE IF Char(s, e) = "]" THEN JOk([t |-> "arr", elems |-> Append(elems, v.v)], e + 1)
        ELSE IF Char(s, e) = "," THEN JsonElements(s, SkipWs(s, e + 1), Append(elems, v.v))
        ELSE JFail(i)

\* json.Unmarshal([]byte(text), &m) for a nil map m: an error for a syntax
\* error or a value that is no object; null leaves the map nil
jsonUnmarshal(text) ==
    LET r   == JsonValue(text, SkipWs(text, 1))
        end == SkipWs(text, r.next)
    IN  IF ~r.ok \/ end # Len(text) + 1
        THEN [err |-> "invalid character in JSON input", m |-> JObject(<<>>, <<>>)]
        ELSE IF r.v.t = "obj" THEN [err |-> "", m |-> r.v]
        ELSE IF r.v.t = "null" THEN [err |-> "", m |-> JObject(<<>>, <<>>)]
        ELSE [err |-> "json: cannot unmarshal into Go value of type map[string]interface {}",
              m |-> JObject(<<>>, <<>>)]

\* v, ok := m[key]: the last member of that name
JsonGet(m, key) ==
    LET hits == {i \in 1..Len(m.keys) : m.keys[i] = key}
    IN  IF hits = {} THEN [ok |-> FALSE, v |-> JNull]
        ELSE [ok |-> TRUE, v |-> m.vals[CHOOSE i \in hits : \A j \in hits : j <= i]]

---------------------------------------------------------------------------
(* Attribute values of the plugin framework (types.Int64, types.String):   *)
(* null, unknown (a computed attribute of a plan) or known.                *)

Null == [null |-> TRUE, unknown |-> FALSE, val |-> 0]

NullString == [null |-> TRUE, unknown |-> FALSE, val |-> ""]

StringUnknown == [null |-> FALSE, unknown |-> TRUE, val |-> ""]

Int64Value(n) == [null |-> FALSE, unknown |-> FALSE, val |-> n]

StringValue(s) == [null |-> FALSE, unknown |-> FALSE, val |-> s]

IsNull(v) == v.null

\* ValueInt64 and ValueString: the zero value for null and unknown
Value(v) == v.val

---------------------------------------------------------------------------
(* The client.                                                             *)

Clients ==
    [ConfigFile : {"", "/c.conf"}, Keyring : {"", "/k.ring"}, User : {"", "admin"}]

\* buildCmdArgs with the keyring pair put before the config-file pair
buildCmdArgs_keyringFirst(c, cmd) ==
    LET args0 == Split(cmd, " ")
        args1 == IF c.Keyring # "" THEN args0 \o <<"--keyring", c.Keyring>> ELSE args0
        args2 == IF c.ConfigFile # "" THEN args1 \o <<"--conf", c.ConfigFile>> ELSE args1
        args3 == IF c.User # "" THEN args2 \o <<"--user", c.User>> ELSE args2
    IN  args3

buildCmdArgs(c, cmd) ==
    LET args0 == Split(cmd, " ")
        args1 == IF c.ConfigFile # "" THEN args0 \o <<"--conf", c.ConfigFile>> ELSE args0
        args2 == IF c.Keyring # "" THEN args1 \o <<"--keyring", c.Keyring>> ELSE args1
        args3 == IF c.User # "" THEN args2 \o <<"--user", c.User>> ELSE args2
    IN  args3

\* What the process run of one command gives: err is "" for exit status 0.
Ok(out) == [err |-> "", out |-> out]

Fail(msg) == [err |-> msg, out |-> ""]

\* ExecuteCommand(cmd) when the process run gives `reply`: the record of the
\* call, with the process's own failure message (fail) and the error and the
\* output ExecuteCommand returns (err, out)
ExecuteCommand(c, cmd, reply) ==
    [cmd  |-> cmd,
     args |-> buildCmdArgs(c, cmd),
     fail |-> reply.err,
     err  |-> IF reply.err # "" THEN "command failed: " \o reply.err ELSE "",
     out  |-> IF reply.err # "" THEN "" ELSE reply.out]

\* RunSteps going on with the steps after the failed one
RunSteps_continueAfterFailure(c, steps, failAt, msg) ==
    [i \in 1..Len(steps) |->
        ExecuteCommand(c, steps[i].cmd, IF i = failAt THEN Fail(msg) ELSE Ok(""))]

\* A handler's chain of commands, each with the summary AddError gets when it
\* fails: the commands run in order and the first failure returns.  `failAt`
\* is the step the environment fails (0: none) and `msg` its message.
RunSteps(c, steps, failAt, msg) ==
    [i \in 1..(IF failAt = 0 THEN Len(steps) ELSE failAt) |->
        ExecuteCommand(c, steps[i].cmd, IF i = failAt THEN Fail(msg) ELSE Ok(""))]

Diag(summary, detail) == [summary |-> summary, detail |-> detail]

---------------------------------------------------------------------------
(* The pool resource.                                                      *)

\* Inputs: a pool's name, pg_num (required), pgp_num, type and crush_rule
\* (optional) ...
PoolShapes ==
    {<<"p", 8, Null, NullString, NullString>>,
     <<"p", 16, Null, NullString, StringValue("r1")>>,
     <<"p", 8, Int64Value(8), StringValue("erasure"), StringValue("r1")>>,
     <<"my pool", 32, Int64Value(32), NullString, NullString>>}

\* ... and its optional size and min_size.
PoolRepls == {Null} \cup {Int64Value(n) : n \in 1..MaxRepl}

poolResourceModel(shape, size, minSize) ==
    [kind      |-> "pool",
     Name      |-> StringValue(shape[1]),
     PgNum     |-> Int64Value(shape[2]),
     PgpNum    |-> shape[3],
     Size      |-> size,
     MinSize   |-> minSize,
     Type      |-> shape[4],
     CrushRule |-> shape[5]]

PoolPlans ==
    {poolResourceModel(shape, size, minSize) :
        shape \in PoolShapes, size \in PoolRepls, minSize \in PoolRepls}

\* Messages of a failed create, set or delete command
CudErrors == {"exit status 1"}

\* Messages of a failed query command
ReadErrors ==
    {"exit status 2",
     "Error ENOENT: entity does not exist",
     "Error ENOENT: unrecognized pool",
     "rbd: error opening image: (2) No such file or directory"}

Step(cmd, summary) == [cmd |-> cmd, summary |-> summary]

poolSetCmd(plan, property, value) ==
    "ceph osd pool set " \o Value(plan.Name) \o " " \o property \o " " \o value

poolCreateCmd(plan) ==
    LET poolType == IF ~IsNull(plan.Type) THEN Value(plan.Type) ELSE "replicated"
    IN  "ceph osd pool create " \o Value(plan.Name) \o " "
            \o FormatInt(Value(plan.PgNum)) \o " "
            \o FormatInt(Value(plan.PgpNum)) \o " " \o poolType

\* poolCreateSteps with min_size set before size
poolCreateSteps_minSizeFirst(plan) ==
    <<Step(poolCreateCmd(plan), "Failed to create pool")>>
    \o (IF ~IsNull(plan.MinSize)
        THEN <<Step(poolSetCmd(plan, "min_size", FormatInt(Value(plan.MinSize))),
                    "Failed to set pool min_size")>>
        ELSE <<>>)
    \o (IF ~IsNull(plan.Size)
        THEN <<Step(poolSetCmd(plan, "size", FormatInt(Value(plan.Size))),
                    "Failed to set pool size")>>
        ELSE <<>>)
    \o (IF ~IsNull(plan.CrushRule)
        THEN <<Step(poolSetCmd(plan, "crush_rule", Value(plan.CrushRule)),
                    "Failed to set crush rule")>>
        ELSE <<>>)

\* The commands of poolResource.Create, in the order it issues them
poolCreateSteps(plan) ==
    <<Step(poolCreateCmd(plan), "Failed to create pool")>>
    \o (IF ~IsNull(plan.Size)
        THEN <<Step(poolSetCmd(plan, "size", FormatInt(Value(plan.Size))),
                    "Failed to set pool size")>>
        ELSE <<>>)
    \o (IF ~IsNull(plan.MinSize)
        THEN <<Step(poolSetCmd(plan, "min_size", FormatInt(Value(plan.MinSize))),
                    "Failed to set pool min_size")>>
        ELSE <<>>)
    \o (IF ~IsNull(plan.CrushRule)
        THEN <<Step(poolSetCmd(plan, "crush_rule", Value(plan.CrushRule)),
                    "Failed to set crush rule")>>
        ELSE <<>>)

\* poolUpdateSteps with the min_size command guarded by the size attribute
poolUpdateSteps_sizeGuardTwice(plan) ==
    (IF ~IsNull(plan.Size)
        THEN <<Step(poolSetCmd(plan, "size", FormatInt(Value(plan.Size))),
                    "Failed to update pool size")>>
        ELSE <<>>)
    \o (IF ~IsNull(plan.Size)
        THEN <<Step(poolSetCmd(plan, "min_size", FormatInt(Value(plan.MinSize))),
                    "Failed to update pool min_size")>>
        ELSE <<>>)

\* The commands of poolResource.Update, in the order it issues them
poolUpdateSteps(plan) ==
    (IF ~IsNull(plan.Size)
        THEN <<Step(poolSetCmd(plan, "size", FormatInt(Value(plan.Size))),
                    "Failed to update pool size")>>
        ELSE <<>>)
    \o (IF ~IsNull(plan.MinSize)
        THEN <<Step(poolSetCmd(plan, "min_size", FormatInt(Value(plan.MinSize))),
                    "Failed to update pool min_size")>>
        ELSE <<>>)

poolDeleteCmd(state) ==
    "ceph osd pool delete " \o Value(state.Name) \o " " \o Value(state.Name)
        \o " --yes-i-really-really-mean-it"

poolGetCmd(name) == "ceph osd pool get " \o name \o " all"

\* The second element of strings.Split(line, ":"), trimmed and parsed, the
\* error of ParseInt dropped
colonInt(line) == ParseInt(TrimSpace(Split(line, ":")[2])).val

\* One turn of the loop of poolResource.Read over the lines of the output
poolReadLine(line, state) ==
    LET s1 == IF Contains(line, "size:") /\ Len(Split(line, ":")) = 2
              THEN [state EXCEPT !.Size = Int64Value(colonInt(line))]
              ELSE state
    IN  IF Contains(line, "min_size:") /\ Len(Split(line, ":")) = 2
        THEN [s1 EXCEPT !.MinSize = Int64Value(colonInt(line))]
        ELSE s1

RECURSIVE poolReadLines(_, _)
poolReadLines(lines, state) ==
    IF Len(lines) = 0 THEN state
    ELSE poolReadLines(Tail(lines), poolReadLine(Head(lines), state))

\* The parse of poolResource.Read: the prior state with what the output sets
poolReadParse(output, state) == poolReadLines(Split(output, "\n"), state)

\* The listing "ceph osd pool get <name> all" prints for a pool of this size
\* and min_size (the two properties the provider reads)
PoolListing(size, minSize) ==
    "size: " \o FormatInt(size) \o "\nmin_size: " \o FormatInt(minSize) \o "\n"

\* Outputs of the pool query: listings, and texts with other or broken lines
PoolOutputs ==
    {PoolListing(s, m) : s \in 1..MaxRepl, m \in 1..MaxRepl}
    \cup {"size: 3\nmin_size: 2\n",
          "min_size: 1\nsize: 2\n",
          "size: 2\n",
          "min_size: 1\n",
          "pg_num: 32\n",
          "pool my pool\nsize: 2\n",
          "size: many\n",
          ""}

Idle == op = "idle"

HasPool == Len(tfstate) = 1 /\ tfstate[1].kind = "pool"

Request(plan, state) == [plan |-> plan, state |-> state]

Response(state, removed, diags) == [state |-> state, removed |-> removed, diags |-> diags]

NoRequest == Request(<<>>, <<>>)

NoResponse == Response(<<>>, FALSE, <<>>)

\* The diagnostics of a chain of calls: the failed call's summary and error
StepDiags(steps, cs) ==
    IF Len(cs) > 0 /\ cs[Len(cs)].err # ""
    THEN <<Diag(steps[Len(cs)].summary, cs[Len(cs)].err)>>
    ELSE <<>>

poolCreate ==
    /\ Idle
    /\ tfstate = <<>>
    /\ \E plan \in PoolPlans, msg \in CudErrors :
        LET steps == poolCreateSteps(plan)
        IN  \E failAt \in 0..Len(steps) :
            LET cs    == RunSteps(client, steps, failAt, msg)
                diags == StepDiags(steps, cs)
            IN  /\ op' = "poolCreate"
                /\ req' = Request(<<plan>>, <<>>)
                /\ calls' = cs
                /\ resp' = Response(IF diags = <<>> THEN <<plan>> ELSE <<>>, FALSE, diags)
    /\ UNCHANGED <<client, tfstate, created>>

poolRead ==
    /\ Idle
    /\ HasPool
    /\ \E reply \in {Fail(m) : m \in ReadErrors} \cup {Ok(o) : o \in PoolOutputs} :
        LET state == tfstate[1]
            call  == ExecuteCommand(client, poolGetCmd(Value(state.Name)), reply)
        IN  /\ op' = "poolRead"
            /\ req' = Request(<<>>, <<state>>)
            /\ calls' = <<call>>
            /\ resp' = IF call.err # ""
                       THEN Response(<<state>>, FALSE,
                                     <<Diag("Failed to read pool", call.err)>>)
                       ELSE Response(<<poolReadParse(call.out, state)>>, FALSE, <<>>)
    /\ UNCHANGED <<client, tfstate, created>>

poolUpdate ==
    /\ Idle
    /\ HasPool
    /\ \E plan \in {p \in PoolPlans : p.Name = tfstate[1].Name /\ p # tfstate[1]},
          msg \in CudErrors :
        LET prior == tfstate[1]
            steps == poolUpdateSteps(plan)
        IN  \E failAt \in 0..Len(steps) :
            LET cs    == RunSteps(client, steps, failAt, msg)
                diags == StepDiags(steps, cs)
            IN  /\ op' = "poolUpdate"
                /\ req' = Request(<<plan>>, <<prior>>)
                /\ calls' = cs
                /\ resp' = Response(IF diags = <<>> THEN <<plan>> ELSE <<prior>>,
                                    FALSE, diags)
    /\ UNCHANGED <<client, tfstate, created>>

poolDelete ==
    /\ Idle
    /\ HasPool
    /\ \E reply \in {Fail(m) : m \in CudErrors} \cup {Ok("")} :
        LET state == tfstate[1]
            call  == ExecuteCommand(client, poolDeleteCmd(state), reply)
        IN  /\ op' = "poolDelete"
            /\ req' = Request(<<>>, <<state>>)
            /\ calls' = <<call>>
            /\ resp' = Response(<<state>>, FALSE,
                                IF call.err # ""
                                THEN <<Diag("Failed to delete pool", call.err)>>
                                ELSE <<>>)
    /\ UNCHANGED <<client, tfstate, created>>

---------------------------------------------------------------------------
(* The pool data source.                                                   *)

poolDataSourceModel(name) ==
    [kind |-> "poolData", Name |-> StringValue(name), PgNum |-> Null, Size |-> Null,
     MinSize |-> Null, Type |-> NullString]

\* One turn of the loop of poolDataSource.Read over the lines of the output
poolDataReadLine(line, state) ==
    LET s1 == IF Contains(line, "size:") /\ Len(Split(line, ":")) = 2
              THEN [state EXCEPT !.Size = Int64Value(colonInt(line))]
              ELSE state
        s2 == IF Contains(line, "min_size:") /\ Len(Split(line, ":")) = 2
              THEN [s1 EXCEPT !.MinSize = Int64Value(colonInt(line))]
              ELSE s1
    IN  IF Contains(line, "pg_num:") /\ Len(Split(line, ":")) = 2
        THEN [s2 EXCEPT !.PgNum = Int64Value(colonInt(line))]
        ELSE s2

RECURSIVE poolDataReadLines(_, _)
poolDataReadLines(lines, state) ==
    IF Len(lines) = 0 THEN state
    ELSE poolDataReadLines(Tail(lines), poolDataReadLine(Head(lines), state))

poolDataReadParse(output, state) == poolDataReadLines(Split(output, "\n"), state)

\* The second query of poolDataSource.Read: its failure is dropped
poolDataReadType(call, state) ==
    IF call.err = "" /\ Len(Split(call.out, ":")) = 2
    THEN [state EXCEPT !.Type = StringValue(TrimSpace(Split(call.out, ":")[2]))]
    ELSE state

PoolTypeReplies == {Fail("exit status 2"), Ok("type: replicated\n")}

poolDataRead ==
    /\ Idle
    /\ tfstate = <<>>
    /\ \E name \in {"rbd"},
          reply \in {Fail(m) : m \in ReadErrors} \cup {Ok(o) : o \in PoolOutputs},
          reply2 \in PoolTypeReplies :
        LET call  == ExecuteCommand(client, poolGetCmd(name), reply)
            call2 == ExecuteCommand(client, "ceph osd pool get " \o name \o " type", reply2)
            state == poolDataReadParse(call.out, poolDataSourceModel(name))
        IN  /\ op' = "poolDataRead"
            /\ req' = Request(<<poolDataSourceModel(name)>>, <<>>)
            /\ calls' = IF call.err # "" THEN <<call>> ELSE <<call, call2>>
            /\ resp' = IF call.err # ""
                       THEN Response(<<>>, FALSE,
                                     <<Diag("Failed to get pool information", call.err)>>)
                       ELSE Response(<<poolDataReadType(call2, state)>>, FALSE, <<>>)
    /\ UNCHANGED <<client, tfstate, created>>

---------------------------------------------------------------------------
(* The cluster status data source.                                         *)

clusterStatusDataSourceModel ==
    [kind |-> "clusterStatus", Health |-> NullString, OSDCount |-> Null,
     MonCount |-> Null, MGRCount |-> Null, PoolCount |-> Null]

\* v, ok := m[key].(map[string]interface{})
jsonObjectAt(m, key) ==
    LET g == JsonGet(m, key)
    IN  IF g.ok /\ g.v.t = "obj" THEN [ok |-> TRUE, v |-> g.v]
        ELSE [ok |-> FALSE, v |-> JObject(<<>>, <<>>)]

\* len(m) of a decoded object: a repeated key is one entry of the map
jsonLen(m) == Cardinality({m.keys[i] : i \in 1..Len(m.keys)})

\* The health of clusterStatusDataSource.Read: status["health"]["status"]
statusHealth(status, state) ==
    LET health == jsonObjectAt(status, "health")
        healthStatus == JsonGet(health.v, "status")
    IN  IF health.ok /\ healthStatus.ok /\ healthStatus.v.t = "str"
        THEN [state EXCEPT !.Health = StringValue(healthStatus.v.s)]
        ELSE state

\* len(services[name]["daemons"]) when both are objects
daemonCount(services, name) ==
    LET svc     == jsonObjectAt(services, name)
        daemons == jsonObjectAt(svc.v, "daemons")
    IN  IF svc.ok /\ daemons.ok THEN Int64Value(jsonLen(daemons.v)) ELSE Null

\* The service counts of clusterStatusDataSource.Read
statusServices(status, state) ==
    LET servicemap == jsonObjectAt(status, "servicemap")
        services   == jsonObjectAt(servicemap.v, "services")
    IN  IF servicemap.ok /\ services.ok
        THEN [state EXCEPT !.OSDCount = daemonCount(services.v, "osd"),
                           !.MonCount = daemonCount(services.v, "mon"),
                           !.MGRCount = daemonCount(services.v, "mgr")]
        ELSE state

\* The pool count of clusterStatusDataSource.Read: the failure of the
\* listing is dropped
statusPoolCount(call, state) ==
    IF call.err = ""
    THEN [state EXCEPT !.PoolCount =
              Int64Value(Len(Split(TrimSpace(call.out), "\n")))]
    ELSE state

\* "ceph status --format json" of a cluster with 2 OSDs, 1 monitor, 1 manager
StatusDocument ==
    "{\"health\":{\"status\":\"HEALTH_OK\"},\"servicemap\":{\"services\":{"
        \o "\"osd\":{\"daemons\":{\"0\":{},\"1\":{}}},"
        \o "\"mon\":{\"daemons\":{\"a\":{}}},"
        \o "\"mgr\":{\"daemons\":{\"x\":{}}}}}}"

\* Outputs of the status query: documents, and texts that are no documents
StatusOutputs ==
    {StatusDocument,
     "{\"health\":{\"status\":\"HEALTH_WARN\"}}",
     "{\"servicemap\":{\"services\":{\"osd\":{\"daemons\":{\"0\":{}}}}}}",
     "{}",
     "ceph: not json",
     ""}

\* Replies of "ceph osd pool ls"
PoolLsReplies ==
    {Fail("exit status 1"), Ok("rbd\n"), Ok("rbd\ncephfs\n"), Ok("rbd\n\ncephfs\n"),
     Ok("\n"), Ok("")}

clusterStatusRead ==
    /\ Idle
    /\ tfstate = <<>>
    /\ \E reply \in {Fail(m) : m \in CudErrors} \cup {Ok(o) : o \in StatusOutputs},
          reply2 \in PoolLsReplies :
        LET call  == ExecuteCommand(client, "ceph status --format json", reply)
            doc   == jsonUnmarshal(call.out)
            call2 == ExecuteCommand(client, "ceph osd pool ls", reply2)
            state == statusServices(doc.m,
                         statusHealth(doc.m, clusterStatusDataSourceModel))
        IN  /\ op' = "clusterStatusRead"
            /\ req' = NoRequest
            /\ calls' = IF call.err # "" \/ doc.err # "" THEN <<call>> ELSE <<call, call2>>
            /\ resp' = IF call.err # ""
                       THEN Response(<<>>, FALSE,
                                     <<Diag("Failed to get cluster status", call.err)>>)
                       ELSE IF doc.err # ""
                       THEN Response(<<>>, FALSE,
                                     <<Diag("Failed to parse cluster status", doc.err)>>)
                       ELSE Response(<<statusPoolCount(call2, state)>>, FALSE, <<>>)
    /\ UNCHANGED <<client, tfstate, created>>

---------------------------------------------------------------------------
(* The user (principal) resource.                                          *)

\* A capability map: the daemons are its keys
CapsMaps ==
    {<<>>,
     [d \in {"mon"} |-> "allow r"],
     [d \in {"mon", "osd"} |-> IF d = "mon" THEN "allow r" ELSE "allow rw pool=rbd"]}

UserNames == {"client.app"}

userResourceModel(name, caps, key) ==
    [kind |-> "user", Name |-> StringValue(name), Caps |-> caps, Key |-> key]

\* The plans of a Create or an Update: the computed key is not known
UserPlans == {userResourceModel(n, c, StringUnknown) : n \in UserNames, c \in CapsMaps}

\* The orders in which a range over the map may visit its keys
RangeOrders(m) ==
    {o \in [1..Cardinality(DOMAIN m) -> DOMAIN m] :
        \A i, j \in DOMAIN o : i # j => o[i] # o[j]}

RECURSIVE capsArgsOf(_, _)
\* capsArgs after a range over the map in this order
capsArgsOf(m, order) ==
    IF Len(order) = 0 THEN <<>>
    ELSE <<Head(order), m[Head(order)]>> \o capsArgsOf(m, Tail(order))

userCapsCmd(verb, plan, order) ==
    "ceph auth " \o verb \o " " \o Value(plan.Name) \o " "
        \o Join(capsArgsOf(plan.Caps, order), " ")

\* One turn of the loop of userResource.Create over the lines of the output
userKeyLine(line, plan) ==
    IF Contains(line, "key =") /\ Len(Split(line, "=")) = 2
    THEN [plan EXCEPT !.Key = StringValue(TrimSpace(Split(line, "=")[2]))]
    ELSE plan

RECURSIVE userKeyLines(_, _)
userKeyLines(lines, plan) ==
    IF Len(lines) = 0 THEN plan
    ELSE userKeyLines(Tail(lines), userKeyLine(Head(lines), plan))

userKeyParse(output, plan) == userKeyLines(Split(output, "\n"), plan)

\* Outputs of "ceph auth get-or-create" and "ceph auth get"
UserOutputs ==
    {"[client.app]\n\tkey = AQBsecret\n",
     "[client.app]\n\tkey = AQBpadded==\n",
     ""}

\* userNotFound matching every ENOENT error
userNotFound_anyENOENT(err) == Contains(err, "ENOENT")

\* Whether the error of the query means that the user is gone
userNotFound(err) == Contains(err, "entity does not exist")

HasUser == Len(tfstate) = 1 /\ tfstate[1].kind = "user"

userCreate ==
    /\ Idle
    /\ tfstate = <<>>
    /\ \E plan \in UserPlans,
          reply \in {Fail(m) : m \in CudErrors} \cup {Ok(o) : o \in UserOutputs} :
        \E order \in RangeOrders(plan.Caps) :
            LET call == ExecuteCommand(client, userCapsCmd("get-or-create", plan, order), reply)
            IN  /\ op' = "userCreate"
                /\ req' = Request(<<plan>>, <<>>)
                /\ calls' = <<call>>
                /\ resp' = IF call.err # ""
                           THEN Response(<<>>, FALSE,
                                         <<Diag("Failed to create user", call.err)>>)
                           ELSE Response(<<userKeyParse(call.out, plan)>>, FALSE, <<>>)
    /\ UNCHANGED <<client, tfstate, created>>

userRead ==
    /\ Idle
    /\ HasUser
    /\ \E reply \in {Fail(m) : m \in ReadErrors} \cup {Ok(o) : o \in UserOutputs} :
        LET state == tfstate[1]
            call  == ExecuteCommand(client, "ceph auth get " \o Value(state.Name), reply)
        IN  /\ op' = "userRead"
            /\ req' = Request(<<>>, <<state>>)
            /\ calls' = <<call>>
            /\ resp' = IF call.err # ""
                       THEN IF userNotFound(call.err)
                            THEN Response(<<>>, TRUE, <<>>)
                            ELSE Response(<<state>>, FALSE,
                                          <<Diag("Failed to read user", call.err)>>)
                       ELSE IF ~Contains(call.out, Value(state.Name))
                            THEN Response(<<>>, TRUE, <<>>)
                            ELSE Response(<<state>>, FALSE, <<>>)
    /\ UNCHANGED <<client, tfstate, created>>

userUpdate ==
    /\ Idle
    /\ HasUser
    /\ \E plan \in {p \in UserPlans : p.Name = tfstate[1].Name},
          reply \in {Fail(m) : m \in CudErrors} \cup {Ok("")} :
        \E order \in RangeOrders(plan.Caps) :
            LET prior == tfstate[1]
                call  == ExecuteCommand(client, userCapsCmd("caps", plan, order), reply)
            IN  /\ op' = "userUpdate"
                /\ req' = Request(<<plan>>, <<prior>>)
                /\ calls' = <<call>>
                /\ resp' = IF call.err # ""
                           THEN Response(<<prior>>, FALSE,
                                         <<Diag("Failed to update user caps", call.err)>>)
                           ELSE Response(<<plan>>, FALSE, <<>>)
    /\ UNCHANGED <<client, tfstate, created>>

userDelete ==
    /\ Idle
    /\ HasUser
    /\ \E reply \in {Fail(m) : m \in CudErrors} \cup {Ok("")} :
        LET state == tfstate[1]
            call  == ExecuteCommand(client, "ceph auth del " \o Value(state.Name), reply)
        IN  /\ op' = "userDelete"
            /\ req' = Request(<<>>, <<state>>)
            /\ calls' = <<call>>
            /\ resp' = Response(<<state>>, FALSE,
                                IF call.err # ""
                                THEN <<Diag("Failed to delete user", call.err)>>
                                ELSE <<>>)
    /\ UNCHANGED <<client, tfstate, created>>

---------------------------------------------------------------------------
(* The block image resource.                                               *)

\* The features attribute: null, or the list ElementsAs gives
NoFeatures == [null |-> TRUE, elems |-> <<>>]

FeatureSets ==
    {NoFeatures,
     [null |-> FALSE, elems |-> <<>>],
     [null |-> FALSE, elems |-> <<"layering">>],
     [null |-> FALSE, elems |-> <<"layering", "exclusive-lock">>]}

\* Sizes a configuration asks for, as the schema describes them ("10G", "1T")
ImageSizes == {"1G", "1M", "2048K", "4096B"}

blockImageResourceModel(name, pool, size, features) ==
    [kind |-> "image", Name |-> StringValue(name), Pool |-> StringValue(pool),
     Size |-> StringValue(size), Features |-> features]

ImagePlans ==
    {blockImageResourceModel("img", "rbd", size, f) : size \in ImageSizes, f \in FeatureSets}

imageCreateCmd(plan) ==
    LET cmd == "rbd create --size " \o Value(plan.Size) \o " "
                   \o Value(plan.Pool) \o "/" \o Value(plan.Name)
    IN  IF ~plan.Features.null /\ Len(plan.Features.elems) > 0
        THEN cmd \o " --image-feature " \o Join(plan.Features.elems, ",")
        ELSE cmd

imageSpec(state) == Value(state.Pool) \o "/" \o Value(state.Name)

\* Whether the error of the query means that the image is gone
imageNotFound(err) == Contains(err, "No such file or directory")

\* fmt.Sprintf("%.0fB", size) for the float64 of a JSON integer (the numbers
\* of the model are far below 2^53, where a float64 holds every integer)
formatBytes(n) == FormatInt(n) \o "B"

\* imageReadState with the size of a document without a number as size
\* rendered as zero bytes
imageReadState_zeroWhenMissing(m, state) ==
    LET size == JsonGet(m, "size")
    IN  IF size.ok /\ size.v.t = "num"
        THEN [state EXCEPT !.Size = StringValue(formatBytes(size.v.n))]
        ELSE [state EXCEPT !.Size = StringValue(formatBytes(0))]

\* The state of blockImageResource.Read after a decoded document
imageReadState(m, state) ==
    LET size == JsonGet(m, "size")
    IN  IF size.ok /\ size.v.t = "num"
        THEN [state EXCEPT !.Size = StringValue(formatBytes(size.v.n))]
        ELSE state

\* The unit letters of the rbd tool's --size argument, in bytes
UnitBytes(u) ==
    CASE u = "B" -> 1
      [] u = "K" -> 1024
      [] u = "M" -> 1024 * 1024
      [] u = "G" -> 1024 * 1024 * 1024

\* The byte count the control plane holds for an image made with --size s
SizeBytes(s) == ParseNat(SubSeq(s, 1, Len(s) - 1)) * UnitBytes(Char(s, Len(s)))

\* "rbd info --format json" of an image of n bytes
ImageInfo(n) ==
    "{\"name\":\"img\",\"size\":" \o FormatInt(n) \o ",\"features\":[\"layering\"]}"

\* Outputs of the image query
ImageOutputs ==
    {ImageInfo(SizeBytes(s)) : s \in ImageSizes}
    \cup {"{\"size\": 1073741824}", "{\"name\":\"img\"}", "{}", "{\"size\":\"1G\"}",
          "null", "rbd: not json", ""}

HasImage == Len(tfstate) = 1 /\ tfstate[1].kind = "image"

imageCreate ==
    /\ Idle
    /\ tfstate = <<>>
    /\ \E plan \in ImagePlans, reply \in {Fail(m) : m \in CudErrors} \cup {Ok("")} :
        LET call == ExecuteCommand(client, imageCreateCmd(plan), reply)
        IN  /\ op' = "imageCreate"
            /\ req' = Request(<<plan>>, <<>>)
            /\ calls' = <<call>>
            /\ resp' = IF call.err # ""
                       THEN Response(<<>>, FALSE,
                                     <<Diag("Failed to create block image", call.err)>>)
                       ELSE Response(<<plan>>, FALSE, <<>>)
    /\ UNCHANGED <<client, tfstate, created>>

imageRead ==
    /\ Idle
    /\ HasImage
    /\ \E reply \in {Fail(m) : m \in ReadErrors} \cup {Ok(o) : o \in ImageOutputs} :
        LET state == tfstate[1]
            call  == ExecuteCommand(client,
                        "rbd info " \o imageSpec(state) \o " --format json", reply)
            doc   == jsonUnmarshal(call.out)
        IN  /\ op' = "imageRead"
            /\ req' = Request(<<>>, <<state>>)
            /\ calls' = <<call>>
            /\ resp' = IF call.err # ""
                       THEN IF imageNotFound(call.err)
                            THEN Response(<<>>, TRUE, <<>>)
                            ELSE Response(<<state>>, FALSE,
                                          <<Diag("Failed to read block image", call.err)>>)
                       ELSE IF doc.err # ""
                            THEN Response(<<state>>, FALSE,
                                          <<Diag("Failed to parse image info", doc.err)>>)
                            ELSE Response(<<imageReadState(doc.m, state)>>, FALSE, <<>>)
    /\ UNCHANGED <<client, tfstate, created>>

\* The commands of blockImageResource.Update
imageUpdateSteps(plan, state) ==
    IF plan.Size # state.Size
    THEN <<Step("rbd resize --size " \o Value(plan.Size) \o " " \o imageSpec(plan),
                "Failed to resize block image")>>
    ELSE <<>>

imageUpdate ==
    /\ Idle
    /\ HasImage
    /\ \E plan \in ImagePlans, msg \in CudErrors :
        LET prior == tfstate[1]
            steps == imageUpdateSteps(plan, prior)
        IN  \E failAt \in 0..Len(steps) :
            LET cs    == RunSteps(client, steps, failAt, msg)
                diags == StepDiags(steps, cs)
            IN  /\ op' = "imageUpdate"
                /\ req' = Request(<<plan>>, <<prior>>)
                /\ calls' = cs
                /\ resp' = Response(IF diags = <<>> THEN <<plan>> ELSE <<prior>>,
                                    FALSE, diags)
    /\ UNCHANGED <<client, tfstate, created>>

imageDelete ==
    /\ Idle
    /\ HasImage
    /\ \E reply \in {Fail(m) : m \in CudErrors} \cup {Ok("")} :
        LET state == tfstate[1]
            call  == ExecuteCommand(client, "rbd rm " \o imageSpec(state), reply)
        IN  /\ op' = "imageDelete"
            /\ req' = Request(<<>>, <<state>>)
            /\ calls' = <<call>>
            /\ resp' = Response(<<state>>, FALSE,
                                IF call.err # ""
                                THEN <<Diag("Failed to delete block image", call.err)>>
                                ELSE <<>>)
    /\ UNCHANGED <<client, tfstate, created>>

---------------------------------------------------------------------------
(* The host runtime.                                                       *)

IsCreate(o) == o \in {"poolCreate", "userCreate", "imageCreate"}

IsDelete(o) == o \in {"poolDelete", "userDelete", "imageDelete"}

IsDataSource(o) == o \in {"poolDataRead", "clusterStatusRead"}

\* The handler returns.  The host persists the state of the response: a
\* resource's Read and Update start from the prior state, a Create from no
\* state, and after a Delete without error the host forgets the resource.
\* A data source's result is not a managed resource and is not persisted.
hostReturn ==
    /\ ~Idle
    /\ tfstate' = IF IsDataSource(op) THEN tfstate
                  ELSE IF IsDelete(op) /\ resp.diags = <<>> THEN <<>>
                  ELSE resp.state
    /\ created' = IF IsDataSource(op) THEN created
                  ELSE IsCreate(op) /\ resp.diags = <<>>
    /\ op' = "idle"
    /\ req' = NoRequest
    /\ calls' = <<>>
    /\ resp' = NoResponse
    /\ UNCHANGED client

---------------------------------------------------------------------------
(* The specification.                                                      *)

Init ==
    /\ client \in Clients
    /\ tfstate = <<>>
    /\ created = FALSE
    /\ op = "idle"
    /\ req = NoRequest
    /\ calls = <<>>
    /\ resp = NoResponse

Next ==
    \/ poolCreate
    \/ poolRead
    \/ poolUpdate
    \/ poolDelete
    \/ poolDataRead
    \/ clusterStatusRead
    \/ userCreate
    \/ userRead
    \/ userUpdate
    \/ userDelete
    \/ imageCreate
    \/ imageRead
    \/ imageUpdate
    \/ imageDelete
    \/ hostReturn

Spec == Init /\ [][Next]_vars

---------------------------------------------------------------------------
(* The command builder on its own: buildCmdArgs is a pure function of the  *)
(* client and the logical command, and is applied here to commands of the  *)
(* provider and to blank and unevenly spaced ones.                         *)

BuildCommands ==
    {"ceph status",
     "ceph status --format json",
     "ceph osd pool ls",
     "ceph osd pool create test 32 32",
     "ceph osd pool get rbd all",
     "ceph osd pool delete my pool my pool --yes-i-really-really-mean-it",
     "ceph auth get-or-create client.app mon allow r",
     "rbd info rbd/img --format json",
     "rbd create --size 1G rbd/img --image-feature layering",
     "ceph --conf /other.conf status",
     "ceph  status",
     "ceph status ",
     "ceph",
     " ",
     ""}

buildArgs ==
    /\ \E cmd \in BuildCommands :
        /\ op' = "buildCmdArgs"
        /\ req' = Request(<<cmd>>, <<>>)
        /\ calls' = <<ExecuteCommand(client, cmd, Ok(""))>>
    /\ UNCHANGED <<client, tfstate, created, resp>>

SpecBuild == Init /\ [][buildArgs]_vars

---------------------------------------------------------------------------
(* The claims.                                                             *)

Succeeded == resp.diags = <<>>

\* The logical commands of the calls, in order
Cmds(cs) == [i \in DOMAIN cs |-> cs[i].cmd]

IsPrefix(a, b) == Len(a) <= Len(b) /\ SubSeq(b, 1, Len(a)) = a

HasPrefix(s, pre) == Len(pre) <= Len(s) /\ SubSeq(s, 1, Len(pre)) = pre

HasSuffix(s, suf) == Len(suf) <= Len(s) /\ SubSeq(s, Len(s) - Len(suf) + 1, Len(s)) = suf

\* The key of a line of a property listing: what stands before its first
\* colon, trimmed ("" for a line without a colon)
LineKey(line) ==
    IF Contains(line, ":") THEN TrimSpace(SubSeq(line, 1, Index(line, ":") - 1)) ELSE ""

HasKey(output, key) ==
    \E i \in DOMAIN Split(output, "\n") : LineKey(Split(output, "\n")[i]) = key

\* A read of pool properties that got an output: the pool resource's Read
\* or the pool data source's
PoolPropertiesRead ==
    /\ op \in {"poolRead", "poolDataRead"}
    /\ calls[1].err = ""

\* The record the read started from
ReadStart == IF op = "poolRead" THEN req.state[1] ELSE req.plan[1]

\* C1: pool Observe and the pool data source set size only from the line
\* whose key is "size" and min_size only from the line whose key is
\* "min_size": an output without a "size" line leaves size as it was, one
\* without a "min_size" line leaves min_size as it was, and the output
\* "size: 3\nmin_size: 2\n" gives size 3 and min_size 2.
C1_SizeOnlyFromSizeLine ==
    PoolPropertiesRead =>
        /\ ~HasKey(calls[1].out, "size") => resp.state[1].Size = ReadStart.Size
        /\ ~HasKey(calls[1].out, "min_size") => resp.state[1].MinSize = ReadStart.MinSize
        /\ calls[1].out = "size: 3\nmin_size: 2\n" =>
              /\ resp.state[1].Size = Int64Value(3)
              /\ resp.state[1].MinSize = Int64Value(2)

\* The "set" command of a pool property
SetCommand(name, property, n) ==
    "ceph osd pool set " \o name \o " " \o property \o " " \o FormatInt(n)

\* The "set" commands of the fields of `plan` among size and min_size that
\* `wanted` holds, size first
SetCommands(plan, wanted) ==
    (IF "size" \in wanted
        THEN <<SetCommand(plan.Name.val, "size", plan.Size.val)>> ELSE <<>>)
    \o (IF "min_size" \in wanted
        THEN <<SetCommand(plan.Name.val, "min_size", plan.MinSize.val)>> ELSE <<>>)

\* The fields a plan gives with a value that differs from the prior state's
ChangedFields(plan, prior) ==
    {f \in {"size"} : ~plan.Size.null /\ plan.Size # prior.Size}
    \cup {f \in {"min_size"} : ~plan.MinSize.null /\ plan.MinSize # prior.MinSize}

PresentFields(plan) ==
    {f \in {"size"} : ~plan.Size.null} \cup {f \in {"min_size"} : ~plan.MinSize.null}

\* C2 as claimed: a pool Update that succeeds has issued the "set size"
\* command if and only if the desired size differs from the prior one, and
\* the "set min_size" command if and only if the desired min_size differs,
\* size first (no command when nothing differs, 2 when both do).
C2_UpdateIssuesOnlyChanged ==
    (op = "poolUpdate" /\ Succeeded) =>
        Cmds(calls) = SetCommands(req.plan[1], ChangedFields(req.plan[1], req.state[1]))

\* C2 as amended: a pool Update issues the "set size" command if and only if
\* the desired size is given, and the "set min_size" command if and only if
\* the desired min_size is given, size first, whatever the prior state holds:
\* 2 commands when both are given, also when they equal the prior values.
\* An Update that fails has issued these commands up to the one that failed.
C2_UpdateIssuesPresent ==
    op = "poolUpdate" =>
        LET expected == SetCommands(req.plan[1], PresentFields(req.plan[1]))
        IN  /\ IsPrefix(Cmds(calls), expected)
            /\ Succeeded => Cmds(calls) = expected

\* C2's case: both fields given and equal to the prior values, and both sent
C2_Witness ==
    /\ op = "poolUpdate"
    /\ Succeeded
    /\ ~req.plan[1].Size.null
    /\ ~req.plan[1].MinSize.null
    /\ req.plan[1].Size = req.state[1].Size
    /\ req.plan[1].MinSize = req.state[1].MinSize
    /\ Len(calls) = 2

\* The flag pairs of a client, in the builder's order, the empty fields left out
ClientFlags(c) ==
    LET pairs   == <<<<"--conf", c.ConfigFile>>, <<"--keyring", c.Keyring>>,
                     <<"--user", c.User>>>>
        present == SelectSeq(pairs, LAMBDA pair : pair[2] # "")
    IN  IF Len(present) = 0 THEN <<>>
        ELSE IF Len(present) = 1 THEN present[1]
        ELSE IF Len(present) = 2 THEN present[1] \o present[2]
        ELSE present[1] \o present[2] \o present[3]

\* C3: pool Delete issues exactly one command, whose argument vector is
\* ceph osd pool delete, the pool name as one argument, the pool name again
\* as one argument, the force token, then the connection flags.
C3_DeleteNameTwice ==
    op = "poolDelete" =>
        /\ Len(calls) = 1
        /\ calls[1].args =
              <<"ceph", "osd", "pool", "delete", req.state[1].Name.val,
                req.state[1].Name.val, "--yes-i-really-really-mean-it">>
              \o ClientFlags(client)

\* The create command of a plan: its pgp argument is the plan's pgp_num when
\* that is given, and is left open here when it is not
IsCreateCommand(cmd, plan) ==
    LET pre == "ceph osd pool create " \o plan.Name.val \o " "
                   \o FormatInt(plan.PgNum.val) \o " "
        suf == " " \o (IF plan.Type.null THEN "replicated" ELSE plan.Type.val)
    IN  IF ~plan.PgpNum.null
        THEN cmd = pre \o FormatInt(plan.PgpNum.val) \o suf
        ELSE /\ HasPrefix(cmd, pre)
             /\ HasSuffix(cmd, suf)
             /\ Len(cmd) > Len(pre) + Len(suf)

\* The follow-up commands of a plan: one per optional field given, in the
\* order size, min_size, crush_rule
FollowUps(plan) ==
    SetCommands(plan, PresentFields(plan))
    \o (IF plan.CrushRule.null THEN <<>>
        ELSE <<"ceph osd pool set " \o plan.Name.val \o " crush_rule "
                   \o plan.CrushRule.val>>)

\* C4: a pool Create that succeeds has issued the create command first and
\* then one "set" command per optional field given, in the order size,
\* min_size, crush_rule, and nothing else (3 commands when size and min_size
\* are given and crush_rule is not), and returns the desired record, so its
\* size and min_size; a Create that fails has issued a prefix of these.
C4_CreateCommands ==
    op = "poolCreate" =>
        LET plan == req.plan[1]
        IN  /\ Len(calls) >= 1
            /\ IsCreateCommand(calls[1].cmd, plan)
            /\ IsPrefix(Tail(Cmds(calls)), FollowUps(plan))
            /\ Succeeded =>
                  /\ Tail(Cmds(calls)) = FollowUps(plan)
                  /\ (~plan.Size.null /\ ~plan.MinSize.null /\ plan.CrushRule.null)
                        => Len(calls) = 3
                  /\ Len(resp.state) = 1
                  /\ resp.state[1].Size = plan.Size
                  /\ resp.state[1].MinSize = plan.MinSize

\* C4's case: size and min_size given, no crush_rule, 3 commands issued
C4_Witness ==
    /\ op = "poolCreate"
    /\ Succeeded
    /\ ~req.plan[1].Size.null
    /\ ~req.plan[1].MinSize.null
    /\ req.plan[1].CrushRule.null
    /\ Len(calls) = 3
    /\ resp.state[1].Size = req.plan[1].Size

\* C5: when the pool in the host's state is what a Create returned, with
\* size and min_size given and different, and the pool query prints exactly
\* these values, pool Observe returns that size and that min_size.
C5_ObserveAfterCreate ==
    (/\ op = "poolRead"
     /\ created
     /\ ~req.state[1].Size.null
     /\ ~req.state[1].MinSize.null
     /\ req.state[1].Size # req.state[1].MinSize
     /\ calls[1].err = ""
     /\ calls[1].out = PoolListing(req.state[1].Size.val, req.state[1].MinSize.val))
    => /\ resp.state[1].Size = req.state[1].Size
       /\ resp.state[1].MinSize = req.state[1].MinSize

\* C6: when the image in the host's state is what a Create returned and the
\* image query prints the image as it was made, block-image Observe returns
\* the desired size string (no drift).
C6_ImageSizeRoundTrip ==
    (/\ op = "imageRead"
     /\ created
     /\ calls[1].err = ""
     /\ calls[1].out = ImageInfo(SizeBytes(req.state[1].Size.val)))
    => resp.state[1].Size = req.state[1].Size

\* C7: when pgp_num is not given, the create command of pool Create carries
\* pg_num as its pgp argument.
C7_PgpDefaultsToPg ==
    (op = "poolCreate" /\ req.plan[1].PgpNum.null) =>
        LET plan == req.plan[1]
        IN  calls[1].cmd =
                "ceph osd pool create " \o plan.Name.val \o " "
                    \o FormatInt(plan.PgNum.val) \o " " \o FormatInt(plan.PgNum.val)
                    \o " " \o (IF plan.Type.null THEN "replicated" ELSE plan.Type.val)

\* C8: the builder's output is the tokens of the logical command split at
\* the spaces, then "--conf <file>" if and only if the config file is not
\* empty, then "--keyring <keyring>" if and only if the keyring is not empty,
\* then "--user <user>" if and only if the user is not empty.
C8_BuilderFlags ==
    \A i \in DOMAIN calls :
        LET tokens == Split(calls[i].cmd, " ")
            args   == calls[i].args
            rest   == SubSeq(args, Len(tokens) + 1, Len(args))
            n      == Cardinality({f \in {"ConfigFile", "Keyring", "User"} : client[f] # ""})
        IN  /\ IsPrefix(tokens, args)
            /\ Len(rest) = 2 * n
            /\ rest = ClientFlags(client)
            /\ \A k \in 1..n : rest[2 * k] # ""

\* C8's case: the builder has run for a client with a keyring and a user and
\* no config file, and has put exactly these two pairs after the tokens
C8_Witness ==
    /\ op = "buildCmdArgs"
    /\ client.ConfigFile = ""
    /\ client.Keyring # ""
    /\ client.User # ""
    /\ calls[1].cmd = "ceph status"
    /\ calls[1].args = <<"ceph", "status", "--keyring", client.Keyring, "--user", client.User>>

\* C9: when the query of principal Observe fails, Observe signals absence
\* (removes the resource, no error) if the failure message contains
\* "entity does not exist", and otherwise reports an error and keeps the
\* resource.
C9_UserAbsentOnlyOnMarker ==
    (op = "userRead" /\ calls[1].fail # "") =>
        IF Contains(calls[1].fail, "entity does not exist")
        THEN resp.removed /\ resp.state = <<>> /\ resp.diags = <<>>
        ELSE ~resp.removed /\ resp.state = req.state /\ Len(resp.diags) = 1

\* C9's case: a failed query whose message carries the marker, and absence
C9_Witness ==
    /\ op = "userRead"
    /\ Contains(calls[1].fail, "entity does not exist")
    /\ resp.removed

\* The control plane's "not found" message of each kind of resource
NotFoundMarker(o) ==
    CASE o = "poolRead" -> "unrecognized pool"
      [] o = "userRead" -> "entity does not exist"
      [] o = "imageRead" -> "No such file or directory"

\* C10: for every kind of resource, Observe signals absence rather than an
\* error when the query fails with the "not found" message of that kind.
C10_AbsentOnNotFound ==
    (/\ op \in {"poolRead", "userRead", "imageRead"}
     /\ Contains(calls[1].fail, NotFoundMarker(op)))
    => resp.removed /\ resp.diags = <<>>


\* The byte count of a configured size, rendered as Observe renders it
RenderedBytes(s) ==
    CASE s = "1G" -> "1073741824B"
      [] s = "1M" -> "1048576B"
      [] s = "2048K" -> "2097152B"
      [] s = "4096B" -> "4096B"

\* Documents of the image query that have no "size" key
NoSizeDocuments == {"{\"name\":\"img\"}", "{}"}

AllCommandsSucceeded == \A i \in DOMAIN calls : calls[i].fail = ""

\* C12: when every command of a block-image Observe or of a cluster snapshot
\* succeeds, the operation reports no error and returns a record, whatever
\* the text of the output is (also a text that is not valid JSON).
C12_NoParseError ==
    (op \in {"imageRead", "clusterStatusRead"} /\ AllCommandsSucceeded)
    => Succeeded /\ Len(resp.state) = 1

\* C13: when the status query fails or prints a document, the cluster
\* snapshot is returned without an error, both queries are made, and a
\* query that fails leaves only its own fields at
\* their zero value: a failed status query still gives the pool count of the
\* listing, a failed listing still gives the health and the service counts.
C13_SnapshotAlwaysReturned ==
    (/\ op = "clusterStatusRead"
     /\ calls[1].fail # "" \/ jsonUnmarshal(calls[1].out).err = "") =>
        /\ Succeeded
        /\ Len(resp.state) = 1
        /\ Len(calls) = 2
        /\ calls[1].cmd = "ceph status --format json"
        /\ calls[2].cmd = "ceph osd pool ls"
        /\ calls[2].fail # "" => resp.state[1].PoolCount = Null
        /\ (calls[1].fail # "" /\ calls[2].fail = "") => ~resp.state[1].PoolCount.null
        /\ (calls[1].out = StatusDocument) =>
              /\ resp.state[1].Health = StringValue("HEALTH_OK")
              /\ resp.state[1].OSDCount = Int64Value(2)
              /\ resp.state[1].MonCount = Int64Value(1)
              /\ resp.state[1].MGRCount = Int64Value(1)

\* What stands right of the first "=" of a line, trimmed
RightHandSide(line) == TrimSpace(SubSeq(line, Index(line, "=") + 1, Len(line)))

\* C14: a principal Create that succeeds returns as secret the whole
\* right-hand side of the output line that carries "key =", also when the
\* secret itself contains "=" characters; with such a line the secret is set.
C14_SecretIsRightHandSide ==
    (op = "userCreate" /\ calls[1].err = "") =>
        \A i \in DOMAIN Split(calls[1].out, "\n") :
            LET line == Split(calls[1].out, "\n")[i]
            IN  Contains(line, "key =") =>
                    /\ ~resp.state[1].Key.unknown
                    /\ ~resp.state[1].Key.null
                    /\ resp.state[1].Key.val = RightHandSide(line)

\* The word of the error summary that names the step of a pool command
StepWord(cmd) ==
    IF HasPrefix(cmd, "ceph osd pool create ") THEN "create pool"
    ELSE IF Contains(cmd, " min_size ") THEN "min_size"
    ELSE IF Contains(cmd, " size ") THEN "pool size"
    ELSE "crush rule"

\* C15: in a pool Create in which a command fails, the failed command is the
\* last one issued, the commands issued are a prefix of the create and set
\* commands of the plan (no delete, nothing compensating), exactly one error
\* is reported, which names the failed step and carries the failure, and no
\* record is returned.
C15_CreateFailureAborts ==
    (op = "poolCreate" /\ ~AllCommandsSucceeded) =>
        LET plan == req.plan[1]
            k    == CHOOSE i \in DOMAIN calls :
                        calls[i].fail # "" /\ \A j \in 1..(i - 1) : calls[j].fail = ""
        IN  /\ k = Len(calls)
            /\ IsCreateCommand(calls[1].cmd, plan)
            /\ IsPrefix(Tail(Cmds(calls)), FollowUps(plan))
            /\ \A i \in DOMAIN calls : ~Contains(calls[i].cmd, "delete")
            /\ Len(resp.diags) = 1
            /\ Contains(resp.diags[1].summary, "Failed to")
            /\ Contains(resp.diags[1].summary, StepWord(calls[k].cmd))
            /\ Contains(resp.diags[1].detail, calls[k].fail)
            /\ resp.state = <<>>
            /\ ~resp.removed

\* C15's case: the create command succeeded, the size command failed, and
\* the min_size and crush_rule commands of the plan were not issued
C15_Witness ==
    /\ op = "poolCreate"
    /\ ~req.plan[1].Size.null
    /\ ~req.plan[1].MinSize.null
    /\ ~req.plan[1].CrushRule.null
    /\ Len(calls) = 2
    /\ calls[1].fail = ""
    /\ calls[2].fail # ""
    /\ resp.diags[1].summary = "Failed to set pool size"
    /\ resp.state = <<>>


\* The number of lines of a text that are not empty after trimming
NonEmptyLines(text) ==
    Cardinality({i \in DOMAIN Split(text, "\n") : TrimSpace(Split(text, "\n")[i]) # ""})

\* C16: when the pool listing succeeds, the pool count of the cluster
\* snapshot is the number of lines of the listing that are not empty after
\* trimming: 0 for an empty listing, blank lines not counted.
C16_PoolCountNonEmptyLines ==
    (op = "clusterStatusRead" /\ Len(calls) = 2 /\ calls[2].fail = "") =>
        resp.state[1].PoolCount = Int64Value(NonEmptyLines(calls[2].out))

\* C17: the tokens the builder derives from the logical command (its output
\* without the flag pairs) hold no empty string, and a blank logical command
\* gives the flag pairs alone.
C17_NoEmptyTokens ==
    \A i \in DOMAIN calls :
        LET args   == calls[i].args
            flags  == ClientFlags(client)
            tokens == SubSeq(args, 1, Len(args) - Len(flags))
        IN  /\ Len(args) >= Len(flags)
            /\ SubSeq(args, Len(args) - Len(flags) + 1, Len(args)) = flags
            /\ \A k \in DOMAIN tokens : tokens[k] # ""
            /\ TrimSpace(calls[i].cmd) = "" => args = flags

\* A line of the listing gives this key a valid integer
IsIntegerText(s) == Len(s) > 0 /\ \A k \in 1..Len(s) : IsDigit(Char(s, k))

HasIntegerFor(output, key) ==
    \E i \in DOMAIN Split(output, "\n") :
        LET line == Split(output, "\n")[i]
        IN  /\ LineKey(line) = key
            /\ IsIntegerText(TrimSpace(SubSeq(line, Index(line, ":") + 1, Len(line))))

\* C18: pool Observe returns min_size as it was in the prior state unless the
\* output has a min_size line with a valid integer, and size likewise (stated
\* here for the outputs without a min_size line); a value that is no integer
\* does not make the field zero.
C18_KeptWhenMissingOrMalformed ==
    (op = "poolRead" /\ calls[1].err = "") =>
        /\ (~HasIntegerFor(calls[1].out, "size") /\ ~HasKey(calls[1].out, "min_size"))
              => resp.state[1].Size = req.state[1].Size
        /\ ~HasIntegerFor(calls[1].out, "min_size")
              => resp.state[1].MinSize = req.state[1].MinSize

\* C19: principal Create and principal Update of a principal with at least
\* one capability issue one command whose
\* argument vector is ceph auth <verb> <name>, then for every entry of the
\* capability map the daemon and its capability string as one argument each
\* (2 arguments per entry), then the connection flags.
C19_OnePairPerCapability ==
    (op \in {"userCreate", "userUpdate"} /\ DOMAIN req.plan[1].Caps # {}) =>
        LET plan  == req.plan[1]
            args  == calls[1].args
            flags == ClientFlags(client)
            n     == Cardinality(DOMAIN plan.Caps)
            verb  == IF op = "userCreate" THEN "get-or-create" ELSE "caps"
        IN  /\ Len(calls) = 1
            /\ Len(args) = 4 + 2 * n + Len(flags)
            /\ SubSeq(args, 1, 4) = <<"ceph", "auth", verb, plan.Name.val>>
            /\ \A d \in DOMAIN plan.Caps :
                  \E k \in 1..n : args[3 + 2 * k] = d /\ args[4 + 2 * k] = plan.Caps[d]
            /\ SubSeq(args, 5 + 2 * n, Len(args)) = flags

\* The property name of the control plane for a field of the pool record
PoolProperty(f) ==
    CASE f = "PgNum" -> "pg_num"
      [] f = "PgpNum" -> "pgp_num"
      [] f = "Type" -> "type"
      [] f = "CrushRule" -> "crush_rule"
      [] f = "Size" -> "size"
      [] f = "MinSize" -> "min_size"

\* C20: after a pool Update that succeeds, every field of the returned
\* record that holds a value and differs from the prior state was sent by a
\* "set" command of that Update.
C20_ReturnedChangesWereSent ==
    (op = "poolUpdate" /\ Succeeded) =>
        \A f \in {"PgNum", "PgpNum", "Type", "CrushRule", "Size", "MinSize"} :
            (~resp.state[1][f].null /\ resp.state[1][f] # req.state[1][f]) =>
                \E i \in DOMAIN calls :
                    HasPrefix(calls[i].cmd,
                              "ceph osd pool set " \o req.state[1].Name.val \o " "
                                  \o PoolProperty(f) \o " ")

=============================================================================
